---------------------------- MODULE Spec2Model ----------------------------
(***************************************************************************)
(* Model of robot/parsing/lexer/settings.py (the settings lexer) and of    *)
(* robot/tidypkg/transformers.py (the tidy transformers).                  *)
(*                                                                         *)
(* Python strings are sequences of one-character strings, so that slicing, *)
(* upper(), strip(), replace() and len() are computed, not assumed.        *)
(***************************************************************************)
EXTENDS Integers, Sequences, FiniteSets, TLC

VARIABLES cls, settings, parent, last,   \* the settings lexer
          input, file, passes, pipes, spacecount,  \* the tidy transformers
          tidied   \* the text after the first application of all passes

lexvars == <<cls, settings, parent, last>>

tidyvars == <<input, file, passes, pipes, spacecount, tidied>>

vars == <<lexvars, tidyvars>>

(***************************************************************************)
(* String constants of settings.py.                                        *)
(***************************************************************************)
s_DOCUMENTATION == <<"D", "O", "C", "U", "M", "E", "N", "T", "A", "T", "I", "O", "N">>
s_METADATA == <<"M", "E", "T", "A", "D", "A", "T", "A">>
s_SUITE_SETUP == <<"S", "U", "I", "T", "E", " ", "S", "E", "T", "U", "P">>
s_SUITE_TEARDOWN == <<"S", "U", "I", "T", "E", " ", "T", "E", "A", "R", "D", "O", "W", "N">>
s_TEST_SETUP == <<"T", "E", "S", "T", " ", "S", "E", "T", "U", "P">>
s_TEST_TEARDOWN == <<"T", "E", "S", "T", " ", "T", "E", "A", "R", "D", "O", "W", "N">>
s_TEST_TEMPLATE == <<"T", "E", "S", "T", " ", "T", "E", "M", "P", "L", "A", "T", "E">>
s_TEST_TIMEOUT == <<"T", "E", "S", "T", " ", "T", "I", "M", "E", "O", "U", "T">>
s_FORCE_TAGS == <<"F", "O", "R", "C", "E", " ", "T", "A", "G", "S">>
s_DEFAULT_TAGS == <<"D", "E", "F", "A", "U", "L", "T", " ", "T", "A", "G", "S">>
s_LIBRARY == <<"L", "I", "B", "R", "A", "R", "Y">>
s_RESOURCE == <<"R", "E", "S", "O", "U", "R", "C", "E">>
s_VARIABLES == <<"V", "A", "R", "I", "A", "B", "L", "E", "S">>
s_TASK_SETUP == <<"T", "A", "S", "K", " ", "S", "E", "T", "U", "P">>
s_TASK_TEARDOWN == <<"T", "A", "S", "K", " ", "T", "E", "A", "R", "D", "O", "W", "N">>
s_TASK_TEMPLATE == <<"T", "A", "S", "K", " ", "T", "E", "M", "P", "L", "A", "T", "E">>
s_TASK_TIMEOUT == <<"T", "A", "S", "K", " ", "T", "I", "M", "E", "O", "U", "T">>
s_SETUP == <<"S", "E", "T", "U", "P">>
s_TEARDOWN == <<"T", "E", "A", "R", "D", "O", "W", "N">>
s_TEMPLATE == <<"T", "E", "M", "P", "L", "A", "T", "E">>
s_TIMEOUT == <<"T", "I", "M", "E", "O", "U", "T">>
s_TAGS == <<"T", "A", "G", "S">>
s_ARGUMENTS == <<"A", "R", "G", "U", "M", "E", "N", "T", "S">>
s_RETURN == <<"R", "E", "T", "U", "R", "N">>
s_NONE == <<"N", "O", "N", "E">>
Token_ERROR == <<"E", "R", "R", "O", "R">>
Token_COMMENT == <<"C", "O", "M", "M", "E", "N", "T">>
Token_NAME == <<"N", "A", "M", "E">>
Token_ARGUMENT == <<"A", "R", "G", "U", "M", "E", "N", "T">>

(***************************************************************************)
(* Python built-ins on strings.                                            *)
(***************************************************************************)
LowerCase == <<"a", "b", "c", "d", "e", "f", "g", "h", "i", "j", "k", "l", "m",
               "n", "o", "p", "q", "r", "s", "t", "u", "v", "w", "x", "y", "z">>

UpperCase == <<"A", "B", "C", "D", "E", "F", "G", "H", "I", "J", "K", "L", "M",
               "N", "O", "P", "Q", "R", "S", "T", "U", "V", "W", "X", "Y", "Z">>

\* the letters that str.upper() and str.lower() change
ToUpper == [c \in {LowerCase[i] : i \in DOMAIN LowerCase} |->
               UpperCase[CHOOSE i \in DOMAIN LowerCase : LowerCase[i] = c]]

ToLower == [c \in {UpperCase[i] : i \in DOMAIN UpperCase} |->
               LowerCase[CHOOSE i \in DOMAIN UpperCase : UpperCase[i] = c]]

IsLower(c) == c \in DOMAIN ToUpper

IsUpper(c) == c \in DOMAIN ToLower

CharUpper(c) == IF IsLower(c) THEN ToUpper[c] ELSE c

CharLower(c) == IF IsUpper(c) THEN ToLower[c] ELSE c

IsSpace(c) == c \in {" ", "\t", "\n"}

\* str.upper()
upper(s) == [i \in 1..Len(s) |-> CharUpper(s[i])]

RECURSIVE lstrip(_)
lstrip(s) == IF s # <<>> /\ IsSpace(Head(s)) THEN lstrip(Tail(s)) ELSE s

RECURSIVE rstrip(_)
rstrip(s) ==
    IF s # <<>> /\ IsSpace(s[Len(s)]) THEN rstrip(SubSeq(s, 1, Len(s) - 1)) ELSE s

\* str.strip()
strip(s) == rstrip(lstrip(s))

\* str.replace(old, new) for one-character old and new
replace(s, old, new) == [i \in 1..Len(s) |-> IF s[i] = old THEN new ELSE s[i]]

\* s[1:]
Rest(s) == SubSeq(s, 2, Len(s))

\* s[1:-1]
Slice1m1(s) == SubSeq(s, 2, Len(s) - 1)

\* sub in s, for two strings
IsSubstring(sub, s) ==
    \E i \in 0..(Len(s) - Len(sub)) : SubSeq(s, i + 1, i + Len(sub)) = sub

\* x in t, for a tuple t
InTuple(x, t) == \E i \in DOMAIN t : t[i] = x

\* robot.utils.normalize_whitespace: every run of whitespace becomes one space
RECURSIVE normalize_whitespace(_)
normalize_whitespace(s) ==
    IF s = <<>> THEN <<>>
    ELSE IF IsSpace(Head(s))
         THEN <<" ">> \o normalize_whitespace(lstrip(s))
         ELSE <<Head(s)>> \o normalize_whitespace(Tail(s))

(***************************************************************************)
(* Python values: None, False, a list, a string.                           *)
(***************************************************************************)
PyNone == [py |-> "None", items |-> <<>>]

PyFalse == [py |-> "False", items |-> <<>>]

PyList(l) == [py |-> "list", items |-> l]

PyStr(s) == [py |-> "str", items |-> s]

\* bool(v)
Truthy(v) == v.py \in {"list", "str"} /\ v.items # <<>>

\* a or b
PyOr(a, b) == IF Truthy(a) THEN a ELSE b

(***************************************************************************)
(* The Settings classes.                                                   *)
(***************************************************************************)
Classes == {"TestCaseFileSettings", "InitFileSettings", "ResourceFileSettings",
            "TestCaseSettings", "KeywordSettings"}

names(c) ==
    CASE c = "TestCaseFileSettings" ->
           <<s_DOCUMENTATION, s_METADATA, s_SUITE_SETUP, s_SUITE_TEARDOWN, s_TEST_SETUP,
             s_TEST_TEARDOWN, s_TEST_TEMPLATE, s_TEST_TIMEOUT, s_FORCE_TAGS,
             s_DEFAULT_TAGS, s_LIBRARY, s_RESOURCE, s_VARIABLES>>
      [] c = "ResourceFileSettings" ->
           <<s_DOCUMENTATION, s_LIBRARY, s_RESOURCE, s_VARIABLES>>
      [] c = "TestCaseSettings" ->
           <<s_DOCUMENTATION, s_TAGS, s_SETUP, s_TEARDOWN, s_TEMPLATE, s_TIMEOUT>>
      [] c = "KeywordSettings" ->
           <<s_DOCUMENTATION, s_ARGUMENTS, s_TEARDOWN, s_TIMEOUT, s_TAGS, s_RETURN>>
      [] OTHER -> <<>>

\* the aliases dict as (key, value) pairs
aliases(c) ==
    IF c = "TestCaseFileSettings"
    THEN {<<s_TASK_SETUP, s_TEST_SETUP>>, <<s_TASK_TEARDOWN, s_TEST_TEARDOWN>>,
          <<s_TASK_TEMPLATE, s_TEST_TEMPLATE>>, <<s_TASK_TIMEOUT, s_TEST_TIMEOUT>>}
    ELSE {}

multi_use(c) ==
    CASE c = "TestCaseFileSettings" -> <<s_METADATA, s_LIBRARY, s_RESOURCE, s_VARIABLES>>
      [] c = "ResourceFileSettings" -> <<s_LIBRARY, s_RESOURCE, s_VARIABLES>>
      [] OTHER -> <<>>

\* normalized in self.single_value: in ResourceFileSettings and KeywordSettings
\* single_value is a parenthesised string, so "in" is the substring test
in_single_value(c, normalized) ==
    CASE c = "TestCaseFileSettings" ->
           InTuple(normalized, <<s_RESOURCE, s_TEST_TIMEOUT, s_TEST_TEMPLATE>>)
      [] c = "ResourceFileSettings" -> IsSubstring(normalized, s_RESOURCE)
      [] c = "TestCaseSettings" -> InTuple(normalized, <<s_TIMEOUT, s_TEMPLATE>>)
      [] c = "KeywordSettings" -> IsSubstring(normalized, s_TIMEOUT)
      [] OTHER -> FALSE

name_and_arguments ==
    <<s_METADATA, s_SUITE_SETUP, s_SUITE_TEARDOWN, s_TEST_SETUP, s_TEST_TEARDOWN,
      s_TEST_TEMPLATE, s_SETUP, s_TEARDOWN, s_TEMPLATE, s_LIBRARY, s_RESOURCE, s_VARIABLES>>

\* Settings.__init__
NewSettings(c) == [n \in {names(c)[i] : i \in DOMAIN names(c)} |-> PyNone]

NoError == [msg |-> "None", name |-> <<>>, got |-> 0]

Token(value) == [type |-> <<>>, value |-> value, error |-> NoError]

format_name(c, name) ==
    IF c \in {"TestCaseSettings", "KeywordSettings"}
    THEN strip(Slice1m1(name))
    ELSE name

normalize_name(c, name) ==
    LET n == upper(normalize_whitespace(name))
    IN  IF \E p \in aliases(c) : p[1] = n
        THEN (CHOOSE p \in aliases(c) : p[1] = n)[2]
        ELSE n

\* validate with "self.settings[normalized]" tested for truth, not for None
validate_truthy(c, table, name, normalized, statement) ==
    IF normalized \notin DOMAIN table
    THEN [msg |-> "Non-existing setting '%s'.", name |-> name, got |-> 0]
    ELSE IF Truthy(table[normalized]) /\ ~InTuple(normalized, multi_use(c))
    THEN [msg |-> "Setting '%s' allowed only once. Only the first value is used.",
          name |-> name, got |-> 0]
    ELSE IF in_single_value(c, normalized) /\ Len(statement) > 2
    THEN [msg |-> "Setting '%s' accepts only one value, got %s.",
          name |-> name, got |-> Len(statement) - 1]
    ELSE NoError

\* validate with the arity bound off by one
validate_off_by_one(c, table, name, normalized, statement) ==
    IF normalized \notin DOMAIN table
    THEN [msg |-> "Non-existing setting '%s'.", name |-> name, got |-> 0]
    ELSE IF table[normalized] # PyNone /\ ~InTuple(normalized, multi_use(c))
    THEN [msg |-> "Setting '%s' allowed only once. Only the first value is used.",
          name |-> name, got |-> 0]
    ELSE IF in_single_value(c, normalized) /\ Len(statement) > 3
    THEN [msg |-> "Setting '%s' accepts only one value, got %s.",
          name |-> name, got |-> Len(statement) - 1]
    ELSE NoError

\* validate without the multi_use exemption
validate_no_multi_use(c, table, name, normalized, statement) ==
    IF normalized \notin DOMAIN table
    THEN [msg |-> "Non-existing setting '%s'.", name |-> name, got |-> 0]
    ELSE IF table[normalized] # PyNone
    THEN [msg |-> "Setting '%s' allowed only once. Only the first value is used.",
          name |-> name, got |-> 0]
    ELSE IF in_single_value(c, normalized) /\ Len(statement) > 2
    THEN [msg |-> "Setting '%s' accepts only one value, got %s.",
          name |-> name, got |-> Len(statement) - 1]
    ELSE NoError

\* the ValueError _validate raises, or NoError
validate(c, table, name, normalized, statement) ==
    IF normalized \notin DOMAIN table
    THEN [msg |-> "Non-existing setting '%s'.", name |-> name, got |-> 0]
    ELSE IF table[normalized] # PyNone /\ ~InTuple(normalized, multi_use(c))
    THEN [msg |-> "Setting '%s' allowed only once. Only the first value is used.",
          name |-> name, got |-> 0]
    ELSE IF in_single_value(c, normalized) /\ Len(statement) > 2
    THEN [msg |-> "Setting '%s' accepts only one value, got %s.",
          name |-> name, got |-> Len(statement) - 1]
    ELSE NoError

lex_comment(tokens) ==
    [i \in 1..Len(tokens) |-> [tokens[i] EXCEPT !.type = Token_COMMENT]]

lex_arguments(tokens) ==
    [i \in 1..Len(tokens) |-> [tokens[i] EXCEPT !.type = Token_ARGUMENT]]

\* lex_name_and_arguments without the NAME tag
lex_name_and_arguments_untagged(tokens) == lex_arguments(tokens)

lex_name_and_arguments(tokens) ==
    IF tokens # <<>>
    THEN <<[tokens[1] EXCEPT !.type = Token_NAME]>> \o lex_arguments(Rest(tokens))
    ELSE lex_arguments(Rest(tokens))

\* self.settings[key] = value
DictSet(table, key, value) ==
    [k \in DOMAIN table \cup {key} |-> IF k = key THEN value ELSE table[k]]

\* lex without the return in the except branch
lex_no_return(c, table, statement) ==
    LET setting == statement[1]
        name == format_name(c, setting.value)
        normalized == normalize_name(c, name)
        err == validate(c, table, name, normalized, statement)
    IN  [tokens |-> IF err # NoError
                    THEN <<[setting EXCEPT !.type = Token_ERROR, !.error = err]>>
                         \o lex_comment(Rest(statement))
                    ELSE <<[setting EXCEPT !.type = replace(normalized, " ", "_")]>>
                         \o lex_arguments(Rest(statement)),
         settings |-> DictSet(table, normalized, PyList(lex_arguments(Rest(statement))))]

\* Settings.lex: the statement's tokens and self.settings after the call; the
\* stored list holds the statement's own token objects, which the typing that
\* follows the assignment mutates
lex(c, table, statement) ==
    LET setting == statement[1]
        name == format_name(c, setting.value)
        normalized == normalize_name(c, name)
        err == validate(c, table, name, normalized, statement)
        typed == IF InTuple(normalized, name_and_arguments)
                 THEN lex_name_and_arguments(Rest(statement))
                 ELSE lex_arguments(Rest(statement))
    IN  IF err # NoError
        THEN [tokens |-> <<[setting EXCEPT !.type = Token_ERROR, !.error = err]>>
                         \o lex_comment(Rest(statement)),
              settings |-> table]
        ELSE [tokens |-> <<[setting EXCEPT !.type = replace(normalized, " ", "_")]>>
                         \o typed,
              settings |-> DictSet(table, normalized, PyList(typed))]

\* has_override_value comparing the value as written
has_override_value_cased(template) ==
    IF template = PyNone THEN FALSE
    ELSE template = PyList(<<>>) \/ template.items[1].value = s_NONE

has_override_value(template) ==
    IF template = PyNone THEN FALSE
    ELSE template = PyList(<<>>) \/ upper(template.items[1].value) = s_NONE

has_value(template) ==
    IF ~Truthy(template) THEN template ELSE PyStr(template.items[1].value)

\* TestCaseSettings.template_set, as the Python value it returns
template_set(own, par) ==
    LET test_template == own[s_TEMPLATE]
    IN  IF has_override_value(test_template) THEN PyFalse
        ELSE PyOr(has_value(test_template), has_value(par[s_TEST_TEMPLATE]))

(***************************************************************************)
(* Statements handed to lex.                                               *)
(***************************************************************************)
raw_Documentation == <<"D", "o", "c", "u", "m", "e", "n", "t", "a", "t", "i", "o", "n">>
raw_Metadata == <<"M", "e", "t", "a", "d", "a", "t", "a">>
raw_Library == <<"L", "i", "b", "r", "a", "r", "y">>
raw_Resource == <<"r", "e", "s", "o", "u", "r", "c", "e">>
raw_Task_Template == <<"T", "a", "s", "k", " ", " ", "T", "e", "m", "p", "l", "a", "t", "e">>
raw_Task_Setup == <<"T", "A", "S", "K", "\t", "s", "e", "t", "u", "p">>
raw_Bogus == <<"B", "o", "g", "u", "s">>
raw_b_Template == <<"[", "T", "e", "m", "p", "l", "a", "t", "e", "]">>
raw_b_Tags == <<"[", " ", "T", "a", "g", "s", " ", "]">>
raw_b_Timeout == <<"[", "T", "i", "m", "e", "O", "u", "t", "]">>
raw_b_Bogus == <<"[", "B", "o", "g", "u", "s", "]">>
raw_b_Arguments == <<"[", "A", "r", "g", "u", "m", "e", "n", "t", "s", "]">>
val_K == <<"K">>
val_None == <<"N", "o", "n", "e">>
val_Empty == <<>>

RawNames(c) ==
    CASE c = "TestCaseFileSettings" ->
           {raw_Documentation, raw_Metadata, raw_Task_Template, raw_Bogus}
      [] c = "InitFileSettings" -> {raw_Documentation, raw_Library, raw_Bogus}
      [] c = "ResourceFileSettings" ->
           {raw_Library, raw_Resource, raw_Task_Setup}
      [] c = "TestCaseSettings" -> {raw_b_Template, raw_b_Tags}
      [] c = "KeywordSettings" ->
           {raw_b_Arguments, raw_b_Timeout, raw_b_Template, raw_b_Bogus}

ValueLists ==
    {<<>>, <<val_K>>, <<val_None>>, <<val_Empty>>, <<val_None, val_K>>,
     <<val_K, val_Empty, val_None>>}

MakeStatement(raw, values) ==
    <<Token(raw)>> \o [i \in 1..Len(values) |-> Token(values[i])]

Statements(c) == {MakeStatement(r, v) : r \in RawNames(c), v \in ValueLists}

(***************************************************************************)
(* The lexer as a state machine: one Settings instance of class cls (and,  *)
(* for a TestCaseSettings, the TestCaseFileSettings instance it is given   *)
(* as parent); last is the statement most recently passed to lex.          *)
(***************************************************************************)
\* what self.settings held for the setting a statement names (None when it
\* holds no such key)
Stored(c, table, statement) ==
    LET normalized == normalize_name(c, format_name(c, statement[1].value))
    IN  IF normalized \in DOMAIN table THEN table[normalized] ELSE PyNone

LexInit ==
    /\ cls \in Classes
    /\ settings = NewSettings(cls)
    /\ parent = IF cls = "TestCaseSettings"
                THEN NewSettings("TestCaseFileSettings")
                ELSE NewSettings("InitFileSettings")
    /\ last = [on |-> "none", before |-> <<>>, had |-> PyNone, tokens |-> <<>>]
    /\ input = <<>> /\ file = <<>> /\ passes = <<>>
    /\ pipes = FALSE /\ spacecount = 0 /\ tidied = <<>>

\* self.lex(statement); last records the call: the statement as passed, what
\* the table held for its setting, and the statement's tokens afterwards
Lex ==
    \E statement \in Statements(cls) :
        LET r == lex(cls, settings, statement)
        IN  /\ settings' = r.settings
            /\ last' = [on |-> "self", before |-> statement,
                        had |-> Stored(cls, settings, statement),
                        tokens |-> r.tokens]
            /\ UNCHANGED <<cls, parent>>

\* self.parent.lex(statement)
LexParent ==
    /\ cls = "TestCaseSettings"
    /\ \E statement \in Statements("TestCaseFileSettings") :
        LET r == lex("TestCaseFileSettings", parent, statement)
        IN  /\ statement[1].value = raw_Task_Template
            /\ parent' = r.settings
            /\ last' = [on |-> "parent", before |-> statement,
                        had |-> Stored("TestCaseFileSettings", parent, statement),
                        tokens |-> r.tokens]
            /\ UNCHANGED <<cls, settings>>

LexNext == (Lex \/ LexParent) /\ UNCHANGED tidyvars

LexSpec == LexInit /\ [][LexNext]_vars

(***************************************************************************)
(* What the claims about the lexer refer to, written out independently of  *)
(* the operators above.                                                    *)
(***************************************************************************)
s_BOGUS == <<"B", "O", "G", "U", "S">>

\* the setting a raw name token names in a scope of class c
Canon(c, raw) ==
    CASE raw = raw_Documentation -> s_DOCUMENTATION
      [] raw = raw_Metadata -> s_METADATA
      [] raw = raw_Library -> s_LIBRARY
      [] raw = raw_Resource -> s_RESOURCE
      [] raw = raw_Task_Template ->
           IF c = "TestCaseFileSettings" THEN s_TEST_TEMPLATE ELSE s_TASK_TEMPLATE
      [] raw = raw_Task_Setup ->
           IF c = "TestCaseFileSettings" THEN s_TEST_SETUP ELSE s_TASK_SETUP
      [] raw = raw_b_Template -> s_TEMPLATE
      [] raw = raw_b_Tags -> s_TAGS
      [] raw = raw_b_Timeout -> s_TIMEOUT
      [] raw = raw_b_Arguments -> s_ARGUMENTS
      [] OTHER -> s_BOGUS

RecognizedOf(c) == {names(c)[i] : i \in DOMAIN names(c)}

MultiUseOf(c) ==
    CASE c = "TestCaseFileSettings" -> {s_METADATA, s_LIBRARY, s_RESOURCE, s_VARIABLES}
      [] c = "ResourceFileSettings" -> {s_LIBRARY, s_RESOURCE, s_VARIABLES}
      [] OTHER -> {}

SingleValueOf(c) ==
    CASE c = "TestCaseFileSettings" -> {s_RESOURCE, s_TEST_TIMEOUT, s_TEST_TEMPLATE}
      [] c = "ResourceFileSettings" -> {s_RESOURCE}
      [] c = "TestCaseSettings" -> {s_TIMEOUT, s_TEMPLATE}
      [] c = "KeywordSettings" -> {s_TIMEOUT}
      [] OTHER -> {}

NameAndArgumentsShaped == {name_and_arguments[i] : i \in DOMAIN name_and_arguments}

UnknownMsg == "Non-existing setting '%s'."

DuplicateMsg == "Setting '%s' allowed only once. Only the first value is used."

ArityMsg == "Setting '%s' accepts only one value, got %s."

Values(tokens) == [i \in 1..Len(tokens) |-> tokens[i].value]

\* the class and the table of the instance whose lex produced last
LastClass == IF last.on = "parent" THEN "TestCaseFileSettings" ELSE cls

LastTable == IF last.on = "parent" THEN parent ELSE settings

LastSetting == Canon(LastClass, last.before[1].value)

LastCount == Len(last.before) - 1

Rejected == last.tokens[1].type = Token_ERROR

RejectedWith(msg) == Rejected /\ last.tokens[1].error.msg = msg

(***************************************************************************)
(* C1: once a non-multi-use setting has been lexed successfully, every     *)
(* later statement naming it is rejected with the "allowed only once"      *)
(* diagnostic on its name token, and the stored value stays the value      *)
(* tokens of the first successful statement, also when that statement had  *)
(* no value tokens.                                                        *)
(***************************************************************************)
C1_Call(c, table, tableN) ==
    LET n == LastSetting'
    IN  /\ \A k \in DOMAIN table :
              (table[k] # PyNone /\ k \notin MultiUseOf(c)) =>
                  (k \in DOMAIN tableN /\ tableN[k] = table[k])
        /\ (n \in DOMAIN table /\ table[n] # PyNone /\ n \notin MultiUseOf(c)) =>
              RejectedWith(DuplicateMsg)'
        /\ (n \in DOMAIN table /\ table[n] = PyNone /\ tableN[n] # PyNone) =>
              Values(tableN[n].items) = Values(Rest(last'.before))

C1_AllowedOnlyOnce ==
    [][/\ last'.on = "self" => C1_Call(cls, settings, settings')
       /\ last'.on = "parent" => C1_Call("TestCaseFileSettings", parent, parent')]_vars

C1_Witness ==
    /\ last.on = "self"
    /\ RejectedWith(DuplicateMsg)
    /\ LastCount > 0
    /\ last.had = PyList(<<>>)
    /\ settings[LastSetting] = PyList(<<>>)

(***************************************************************************)
(* C2: when validation fails (unknown name, duplicate of a non-multi-use   *)
(* setting, too many values for a single-value setting) the name token is  *)
(* typed ERROR and carries the message, every other token is typed         *)
(* COMMENT, and the settings table is left as it was; a name outside the   *)
(* recognized set never gets a value stored; in the init-file scope every  *)
(* statement ends this way.                                                *)
(***************************************************************************)
Fails(c, table, statement) ==
    LET n == Canon(c, statement[1].value)
    IN  \/ n \notin RecognizedOf(c)
        \/ table[n] # PyNone /\ n \notin MultiUseOf(c)
        \/ n \in SingleValueOf(c) /\ Len(statement) - 1 >= 2

C2_Call(c, table, tableN) ==
    /\ Fails(c, table, last'.before) =>
          /\ Rejected'
          /\ last'.tokens[1].error.msg \in {UnknownMsg, DuplicateMsg, ArityMsg}
          /\ Len(last'.tokens) = Len(last'.before)
          /\ \A i \in 2..Len(last'.tokens) : last'.tokens[i].type = Token_COMMENT
          /\ Values(last'.tokens) = Values(last'.before)
          /\ tableN = table
    /\ LastSetting' \notin RecognizedOf(c) =>
          RejectedWith(UnknownMsg)' /\ LastSetting' \notin DOMAIN tableN
    /\ c = "InitFileSettings" => RejectedWith(UnknownMsg)' /\ DOMAIN tableN = {}

C2_FailureIsLocal ==
    [][/\ last'.on = "self" => C2_Call(cls, settings, settings')
       /\ last'.on = "parent" => C2_Call("TestCaseFileSettings", parent, parent')]_vars

C2_Witness ==
    /\ last.on = "self"
    /\ cls = "KeywordSettings"
    /\ RejectedWith(UnknownMsg)
    /\ LastCount = 3
    /\ settings[s_ARGUMENTS] # PyNone

(***************************************************************************)
(* C3, as stated: a single-value setting's stored value is unset or at     *)
(* most one token; a statement for a single-value setting with N >= 2      *)
(* value tokens is rejected with a message reporting N; one with 0 or 1 is *)
(* never rejected for arity; the arity check applies to exactly the        *)
(* scope's single-value settings.                                          *)
(***************************************************************************)
SingleValuesHoldAtMostOne(c, table) ==
    \A n \in SingleValueOf(c) \cap DOMAIN table :
        table[n] = PyNone \/ (table[n].py = "list" /\ Len(table[n].items) <= 1)

ArityOnlyWhereDue ==
    RejectedWith(ArityMsg) =>
        /\ LastSetting \in SingleValueOf(LastClass)
        /\ LastCount >= 2

C3_AsStated ==
    /\ SingleValuesHoldAtMostOne(cls, settings)
    /\ SingleValuesHoldAtMostOne("TestCaseFileSettings", parent)
    /\ last.on # "none" =>
          /\ (LastSetting \in SingleValueOf(LastClass) /\ LastCount >= 2) =>
                RejectedWith(ArityMsg) /\ last.tokens[1].error.got = LastCount
          /\ ArityOnlyWhereDue

(***************************************************************************)
(* C3, amended: as stated, except that a statement with N >= 2 value       *)
(* tokens for a single-value setting that is not multi-use and is already  *)
(* set is rejected with the "allowed only once" diagnostic instead; in     *)
(* every other case the message reports N.                                 *)
(***************************************************************************)
C3_Call(c, table, tableN) ==
    LET n == LastSetting'
    IN  /\ SingleValuesHoldAtMostOne(c, tableN)
        /\ (n \in SingleValueOf(c) /\ LastCount' >= 2) =>
              IF table[n] # PyNone /\ n \notin MultiUseOf(c)
              THEN RejectedWith(DuplicateMsg)'
              ELSE RejectedWith(ArityMsg)' /\ last'.tokens[1].error.got = LastCount'
        /\ ArityOnlyWhereDue'

C3_SingleValueArity ==
    [][/\ last'.on = "self" => C3_Call(cls, settings, settings')
       /\ last'.on = "parent" => C3_Call("TestCaseFileSettings", parent, parent')]_vars

C3_Witness ==
    /\ last.on = "self"
    /\ LastSetting \in SingleValueOf(cls)
    /\ LastCount = 3
    /\ last.had # PyNone
    /\ RejectedWith(DuplicateMsg)

(***************************************************************************)
(* C4: template_set is false when the test's own TEMPLATE is an empty      *)
(* value list or starts with NONE in any letter case, whatever the file    *)
(* default; otherwise it is true exactly when the own TEMPLATE has a       *)
(* non-empty first value or, failing that, the file's TEST TEMPLATE has a  *)
(* non-empty first value; with both unset it is false.                     *)
(***************************************************************************)
IsNoneWord(v) ==
    /\ Len(v) = 4
    /\ v[1] \in {"n", "N"} /\ v[2] \in {"o", "O"}
    /\ v[3] \in {"n", "N"} /\ v[4] \in {"e", "E"}

ExplicitNone(template) ==
    /\ template # PyNone
    /\ template.items = <<>> \/ IsNoneWord(template.items[1].value)

HasNonEmptyValue(template) ==
    /\ template # PyNone
    /\ template.items # <<>>
    /\ template.items[1].value # <<>>

ExpectedTemplateSet(own, default) ==
    IF ExplicitNone(own) THEN FALSE
    ELSE HasNonEmptyValue(own) \/ HasNonEmptyValue(default)

C4_TemplatePrecedence ==
    cls = "TestCaseSettings" =>
        Truthy(template_set(settings, parent))
            = ExpectedTemplateSet(settings[s_TEMPLATE], parent[s_TEST_TEMPLATE])

C4_Witness ==
    /\ cls = "TestCaseSettings"
    /\ settings[s_TEMPLATE] # PyNone
    /\ Values(settings[s_TEMPLATE].items) = <<val_None>>
    /\ Values(parent[s_TEST_TEMPLATE].items) = <<val_K>>
    /\ ~Truthy(template_set(settings, parent))

(***************************************************************************)
(* C6: on a successful lex the name token gets the canonical setting type  *)
(* (the alias-resolved normalized name), the remaining tokens are stored   *)
(* as the setting's value, and they are typed NAME then ARGUMENT for a     *)
(* name-and-arguments setting and all ARGUMENT otherwise; no token keeps   *)
(* its previous type.                                                      *)
(***************************************************************************)
ExpectedValueType(n, i) ==
    IF n \in NameAndArgumentsShaped /\ i = 1 THEN Token_NAME ELSE Token_ARGUMENT

C6_SuccessTyping ==
    (last.on # "none" /\ ~Rejected) =>
        /\ LastSetting \in RecognizedOf(LastClass)
        /\ last.tokens[1].type = replace(LastSetting, " ", "_")
        /\ last.tokens[1].error = NoError
        /\ Values(last.tokens) = Values(last.before)
        /\ LastTable[LastSetting] = PyList(Rest(last.tokens))
        /\ \A i \in 1..LastCount :
              last.tokens[i + 1].type = ExpectedValueType(LastSetting, i)
        /\ \A i \in 1..Len(last.tokens) : last.tokens[i].type # last.before[i].type

C6_Witness ==
    /\ last.on = "parent"
    /\ ~Rejected
    /\ last.before[1].value = raw_Task_Template
    /\ last.tokens[1].type = replace(s_TEST_TEMPLATE, " ", "_")
    /\ LastCount = 1
    /\ last.tokens[2].type = Token_NAME

(***************************************************************************)
(* C7, as stated: a multi-use setting may be lexed any number of times     *)
(* without a duplicate diagnostic, and the settings table still holds the  *)
(* value of every successful occurrence, not only the latest.              *)
(***************************************************************************)
TokenValuesOf(entry) ==
    IF entry = PyNone THEN {} ELSE {entry.items[i].value : i \in DOMAIN entry.items}

C7_CallAsStated(c, table, tableN) ==
    LET n == LastSetting'
    IN  n \in MultiUseOf(c) =>
            /\ ~RejectedWith(DuplicateMsg)'
            /\ TokenValuesOf(table[n]) \subseteq TokenValuesOf(tableN[n])

C7_AsStated ==
    [][last'.on = "self" => C7_CallAsStated(cls, settings, settings')]_vars

(***************************************************************************)
(* C7, amended: a multi-use setting may be lexed any number of times       *)
(* without a duplicate diagnostic; each successful statement replaces the  *)
(* stored value, so the table holds the value tokens of the latest         *)
(* successful occurrence only.                                             *)
(***************************************************************************)
C7_Call(c, table, tableN) ==
    LET n == LastSetting'
    IN  n \in MultiUseOf(c) =>
            /\ ~RejectedWith(DuplicateMsg)'
            /\ IF Rejected' THEN tableN[n] = table[n]
               ELSE Values(tableN[n].items) = Values(Rest(last'.before))

C7_MultiUseKeepsLatest ==
    [][last'.on = "self" => C7_Call(cls, settings, settings')]_vars

C7_Witness ==
    /\ last.on = "self"
    /\ LastSetting \in MultiUseOf(cls)
    /\ ~Rejected
    /\ last.before[1].value = raw_Metadata
    /\ last.had # PyNone
    /\ Values(last.had.items) = <<val_K>>
    /\ Values(settings[LastSetting].items) = <<val_None, val_K>>


(***************************************************************************)
(* The tidy transformers.  The tree they rewrite comes from robot.parsing: *)
(* a File holds Sections, a Section a header Statement and body items      *)
(* (Statements, TestCases, Keywords), a TestCase or Keyword a name         *)
(* Statement and body items (Statements, ForLoops), a ForLoop a header, a  *)
(* body and an end.  A Statement holds tokens; its lines end at EOL tokens.*)
(***************************************************************************)
Tok(type, value) == [type |-> type, value |-> value]

Spaces(n) == [i \in 1..n |-> " "]

\* s * n
RECURSIVE Repeat(_, _)
Repeat(s, n) == IF n <= 0 THEN <<>> ELSE s \o Repeat(s, n - 1)

Sep(value) == Tok("SEPARATOR", value)

Eol == Tok("EOL", <<"\n">>)

Statement(type, tokens) == [node |-> "Statement", type |-> type, tokens |-> tokens]

\* EmptyLine([Token(Token.EOL, '\n')])
EmptyLine == Statement("EOL", <<Eol>>)

RECURSIVE ConcatAll(_)
ConcatAll(seqs) == IF seqs = <<>> THEN <<>> ELSE Head(seqs) \o ConcatAll(Tail(seqs))

\* Statement.lines
RECURSIVE SplitLines(_)
SplitLines(tokens) ==
    IF tokens = <<>> THEN <<>>
    ELSE LET ends == {i \in DOMAIN tokens : tokens[i].type = "EOL"}
             k == IF ends = {} THEN Len(tokens)
                  ELSE CHOOSE i \in ends : \A j \in ends : i <= j
         IN  <<SubSeq(tokens, 1, k)>> \o SplitLines(SubSeq(tokens, k + 1, Len(tokens)))

\* Statement.data_tokens
IsData(token) == token.type \notin {"SEPARATOR", "EOL"}

(***************************************************************************)
(* PipeAdder                                                               *)
(***************************************************************************)
\* PipeAdder's line with the indent rendered as spaces after one pipe
PipeAdder_line_spaces(line, indent) ==
    IF Len(line) = 1 /\ line[1].type = "EOL" THEN line
    ELSE LET led == IF line[1].type # "SEPARATOR"
                    THEN <<Sep(<<"|", " ">>)>> \o line
                    ELSE line
             set == [index \in 1..Len(led) |->
                        IF index = 1 /\ indent # 0
                        THEN [led[index] EXCEPT !.value =
                                 <<"|">> \o Spaces(4 * indent) \o <<" ">>]
                        ELSE IF index # 1 /\ led[index].type = "SEPARATOR"
                        THEN [led[index] EXCEPT !.value = <<" ", "|", " ">>]
                        ELSE led[index]]
         IN  IF Len(set) > 1 /\ set[Len(set) - 1].type # "SEPARATOR"
             THEN SubSeq(set, 1, Len(set) - 1) \o <<Sep(<<" ", "|">>), set[Len(set)]>>
             ELSE set

PipeAdder_line(line, indent) ==
    IF Len(line) = 1 /\ line[1].type = "EOL" THEN line
    ELSE LET led == IF line[1].type # "SEPARATOR"
                    THEN <<Sep(<<"|", " ">>)>> \o line
                    ELSE line
             set == [index \in 1..Len(led) |->
                        IF index = 1 /\ indent # 0
                        THEN [led[index] EXCEPT !.value =
                                 Repeat(<<"|", " ", " ", " ", " ">>, indent) \o <<"|", " ">>]
                        ELSE IF index # 1 /\ led[index].type = "SEPARATOR"
                        THEN [led[index] EXCEPT !.value = <<" ", "|", " ">>]
                        ELSE led[index]]
         IN  IF Len(set) > 1 /\ set[Len(set) - 1].type # "SEPARATOR"
             THEN SubSeq(set, 1, Len(set) - 1) \o <<Sep(<<" ", "|">>), set[Len(set)]>>
             ELSE set

PipeAdder_visit_Statement(statement, indent) ==
    LET lines == SplitLines(statement.tokens)
    IN  [statement EXCEPT !.tokens =
            ConcatAll([i \in 1..Len(lines) |-> PipeAdder_line(lines[i], indent)])]

RECURSIVE PipeAdder_visit(_, _)
PipeAdder_visit(node, indent) ==
    CASE node.node = "Statement" -> PipeAdder_visit_Statement(node, indent)
      [] node.node \in {"TestCase", "Keyword"} ->
           [node EXCEPT
               !.name_tokens = PipeAdder_visit_Statement(node.name_tokens, indent),
               !.body = [i \in 1..Len(node.body) |->
                            PipeAdder_visit(node.body[i], indent + 1)]]
      [] node.node = "ForLoop" ->
           [node EXCEPT
               !.header = PipeAdder_visit_Statement(node.header, indent),
               !.body = [i \in 1..Len(node.body) |->
                            PipeAdder_visit(node.body[i], indent + 1)],
               !.end = PipeAdder_visit_Statement(node.end, indent)]
      [] node.node = "Section" ->
           [node EXCEPT
               !.header = PipeAdder_visit_Statement(node.header, indent),
               !.body = [i \in 1..Len(node.body) |->
                            PipeAdder_visit(node.body[i], indent)]]
      [] node.node = "File" ->
           [node EXCEPT
               !.sections = [i \in 1..Len(node.sections) |->
                                PipeAdder_visit(node.sections[i], indent)]]

(***************************************************************************)
(* NewlineAdder                                                            *)
(***************************************************************************)
\* visit_TestCase without the test for an empty body
NewlineAdder_visit_TestCase_last_only(items, index) ==
    LET node == items[index]
    IN  IF index # Len(items)
        THEN [node EXCEPT !.body = Append(node.body, EmptyLine)]
        ELSE node

\* visit_TestCase and visit_Keyword, for the item at position index of the
\* section's body.items (node != self.tests[-1] compares identities)
NewlineAdder_visit_TestCase(items, index) ==
    LET node == items[index]
    IN  IF node.body = <<>> \/ index # Len(items)
        THEN [node EXCEPT !.body = Append(node.body, EmptyLine)]
        ELSE node

\* visit_Section, for the section at position index of self.sections
NewlineAdder_visit_Section(sections, index, node) ==
    IF index # Len(sections) /\ node.type # "COMMENT_HEADER"
    THEN [node EXCEPT !.body = Append(node.body, EmptyLine)]
    ELSE node

\* visit_TestCaseSection and visit_KeywordSection
NewlineAdder_visit_TestCaseSection(sections, index) ==
    LET node == sections[index]
        visited == [node EXCEPT !.body =
                       [i \in 1..Len(node.body) |->
                           IF node.body[i].node \in {"TestCase", "Keyword"}
                           THEN NewlineAdder_visit_TestCase(node.body, i)
                           ELSE node.body[i]]]
    IN  NewlineAdder_visit_Section(sections, index, visited)

NewlineAdder_visit_File(node) ==
    [node EXCEPT !.sections =
        [i \in 1..Len(node.sections) |->
            IF node.sections[i].type \in {"TESTCASE_HEADER", "KEYWORD_HEADER"}
            THEN NewlineAdder_visit_TestCaseSection(node.sections, i)
            ELSE NewlineAdder_visit_Section(node.sections, i, node.sections[i])]]

(***************************************************************************)
(* SeparatorCleaner                                                        *)
(***************************************************************************)
SeparatorCleaner_normalize_separator(index, token, indent, separator) ==
    IF token.type = "SEPARATOR"
    THEN IF index = 0
         THEN [token EXCEPT !.value = Repeat(separator, indent)]
         ELSE [token EXCEPT !.value = separator]
    ELSE token

SeparatorCleaner_visit_Statement(statement, indent, separator) ==
    LET lines == SplitLines(statement.tokens)
    IN  [statement EXCEPT !.tokens =
            ConcatAll([l \in 1..Len(lines) |->
                [i \in 1..Len(lines[l]) |->
                    SeparatorCleaner_normalize_separator(i - 1, lines[l][i],
                                                         indent, separator)]])]

RECURSIVE SeparatorCleaner_visit(_, _, _)
SeparatorCleaner_visit(node, indent, separator) ==
    CASE node.node = "Statement" ->
           SeparatorCleaner_visit_Statement(node, indent, separator)
      [] node.node \in {"TestCase", "Keyword"} ->
           [node EXCEPT
               !.body = [i \in 1..Len(node.body) |->
                            SeparatorCleaner_visit(node.body[i], indent + 1, separator)]]
      [] node.node = "ForLoop" ->
           [node EXCEPT
               !.header = SeparatorCleaner_visit_Statement(node.header, indent, separator),
               !.body = [i \in 1..Len(node.body) |->
                            SeparatorCleaner_visit(node.body[i], indent + 1, separator)],
               !.end = SeparatorCleaner_visit_Statement(node.end, indent, separator)]
      [] node.node = "Section" ->
           [node EXCEPT
               !.header = SeparatorCleaner_visit_Statement(node.header, indent, separator),
               !.body = [i \in 1..Len(node.body) |->
                            SeparatorCleaner_visit(node.body[i], indent, separator)]]
      [] node.node = "File" ->
           [node EXCEPT
               !.sections = [i \in 1..Len(node.sections) |->
                                SeparatorCleaner_visit(node.sections[i], indent, separator)]]

(***************************************************************************)
(* Cleaner                                                                 *)
(***************************************************************************)
\* Token.SETTING_TOKENS
SETTING_TOKENS ==
    {"DOCUMENTATION", "SUITE_SETUP", "SUITE_TEARDOWN", "METADATA", "TEST_SETUP",
     "TEST_TEARDOWN", "TEST_TEMPLATE", "TEST_TIMEOUT", "FORCE_TAGS", "DEFAULT_TAGS",
     "LIBRARY", "RESOURCE", "VARIABLES", "SETUP", "TEARDOWN", "TEMPLATE", "TIMEOUT",
     "TAGS", "ARGUMENTS", "RETURN"}

IsLetter(c) == IsLower(c) \/ IsUpper(c)

\* str.title()
title(s) ==
    [i \in 1..Len(s) |->
        IF i > 1 /\ IsLetter(s[i - 1]) THEN CharLower(s[i]) ELSE CharUpper(s[i])]

\* str.replace(remove, '') for a one-character remove
remove_char(s, remove) == SelectSeq(s, LAMBDA c : c # remove)

\* Cleaner._normalize(marker, remove=None)
Cleaner_normalize(marker) == title(strip(normalize_whitespace(marker)))

\* the position in tokens of statement.data_tokens[0], 0 when there is none
FirstData(tokens) ==
    IF \E i \in DOMAIN tokens : IsData(tokens[i])
    THEN CHOOSE i \in DOMAIN tokens :
             IsData(tokens[i]) /\ \A j \in 1..(i - 1) : ~IsData(tokens[j])
    ELSE 0

DataCount(tokens) == Cardinality({i \in DOMAIN tokens : IsData(tokens[i])})

\* statement.data_tokens[0].value = value
SetFirstData(statement, value) ==
    [statement EXCEPT !.tokens[FirstData(statement.tokens)].value = value]

Cleaner_normalize_section_header(section) ==
    IF section.header.tokens # <<>>
    THEN [section EXCEPT !.header.tokens[1].value =
             <<"*", "*", "*", " ">>
             \o Cleaner_normalize(remove_char(section.header.tokens[1].value, "*"))
             \o <<" ", "*", "*", "*">>]
    ELSE section

Cleaner_normalize_setting_name(statement) ==
    LET name == statement.tokens[FirstData(statement.tokens)].value
    IN  SetFirstData(statement,
            IF name # <<>> /\ name[1] = "["
            THEN <<"[">> \o Cleaner_normalize(Slice1m1(name)) \o <<"]">>
            ELSE Cleaner_normalize(name))

Cleaner_is_setting_without_value(statement) ==
    statement.type \in SETTING_TOKENS /\ DataCount(statement.tokens) = 1

Cleaner_is_empty_line_in_data(statement, in_data_section) ==
    in_data_section /\ statement.type = "EOL"

Cleaner_remove_consecutive_separators(statement) ==
    LET lines == SplitLines(statement.tokens)
        kept(line) ==
            IF Len(line) = 1 /\ line[1].type = "EOL" THEN <<>>
            ELSE LET keep == {i \in DOMAIN line :
                                 ~(i > 1 /\ line[i].type = "SEPARATOR"
                                         /\ line[i - 1].type = "SEPARATOR")}
                 IN  SelectSeq([i \in DOMAIN line |-> [at |-> i, token |-> line[i]]],
                               LAMBDA e : e.at \in keep)
        only(entries) == [i \in DOMAIN entries |-> entries[i].token]
    IN  [statement EXCEPT !.tokens =
            ConcatAll([i \in 1..Len(lines) |-> only(kept(lines[i]))])]

\* a node a visitor removed by returning None
Removed == [node |-> "None"]

\* Cleaner.visit_Statement
Cleaner_visit_Statement(statement, in_data_section) ==
    LET filtered == [statement EXCEPT !.tokens =
                        SelectSeq(statement.tokens,
                                  LAMBDA tk : tk.type # "OLD_FOR_INDENT")]
        named == IF filtered.type \in SETTING_TOKENS
                 THEN Cleaner_normalize_setting_name(filtered)
                 ELSE filtered
    IN  IF Cleaner_is_setting_without_value(named)
           \/ Cleaner_is_empty_line_in_data(named, in_data_section)
        THEN Removed
        ELSE IF in_data_section THEN Cleaner_remove_consecutive_separators(named)
        ELSE named

\* the head of Cleaner.visit_ForLoop, before its generic_visit
Cleaner_rewrite_ForLoop(loop) ==
    LET header == SetFirstData(loop.header, <<"F", "O", "R">>)
        ended == SetFirstData(loop.end, <<"E", "N", "D">>)
    IN  [loop EXCEPT
            !.header = header,
            !.end = IF Len(ended.tokens) = 1
                    THEN [ended EXCEPT !.tokens = <<Sep(<<>>), ended.tokens[1], Eol>>]
                    ELSE ended]

RECURSIVE Cleaner_visit(_, _)
\* generic_visit of a list field: the nodes the visitor returned, None dropped
Cleaner_visit_list(items, in_data_section) ==
    SelectSeq([i \in 1..Len(items) |-> Cleaner_visit(items[i], in_data_section)],
              LAMBDA n : n # Removed)

Cleaner_visit(node, in_data_section) ==
    CASE node.node = "Statement" -> Cleaner_visit_Statement(node, in_data_section)
      [] node.node \in {"TestCase", "Keyword"} ->
           [node EXCEPT
               !.name_tokens = Cleaner_visit_Statement(node.name_tokens, in_data_section),
               !.body = Cleaner_visit_list(node.body, in_data_section)]
      [] node.node = "ForLoop" ->
           LET loop == Cleaner_rewrite_ForLoop(node)
           IN  [loop EXCEPT
                   !.header = Cleaner_visit_Statement(loop.header, in_data_section),
                   !.body = Cleaner_visit_list(loop.body, in_data_section),
                   !.end = Cleaner_visit_Statement(loop.end, in_data_section)]

\* Cleaner.visit_Section; in_data_section is the flag after the assignment
Cleaner_visit_Section(section, in_data_section) ==
    LET headed == Cleaner_normalize_section_header(section)
    IN  [headed EXCEPT
            !.header = IF headed.header.tokens = <<>> THEN headed.header
                       ELSE Cleaner_visit_Statement(headed.header, in_data_section),
            !.body = Cleaner_visit_list(headed.body, in_data_section)]

\* Cleaner().visit(model): the flag is set at the first section that is not a
\* comment section and stays set
Cleaner_visit_File(node) ==
    [node EXCEPT !.sections =
        [i \in 1..Len(node.sections) |->
            Cleaner_visit_Section(node.sections[i],
                \E j \in 1..i : node.sections[j].type # "COMMENT_HEADER")]]

(***************************************************************************)
(* ColumnWidthCounter, ColumnAligner, Aligner                              *)
(***************************************************************************)
setting_and_variable_name_length == 14

short_test_name_length == 18

\* str.ljust(width)
ljust(s, width) == IF Len(s) >= width THEN s ELSE s \o Spaces(width - Len(s))

\* the statements under a node in the order generic_visit reaches them, each
\* with the number of loops around it
RECURSIVE StatementsUnder(_, _)
StatementsUnder(node, loops) ==
    CASE node.node = "Statement" -> <<[statement |-> node, loops |-> loops]>>
      [] node.node \in {"TestCase", "Keyword"} ->
           StatementsUnder(node.name_tokens, loops)
           \o ConcatAll([i \in 1..Len(node.body) |-> StatementsUnder(node.body[i], loops)])
      [] node.node = "ForLoop" ->
           StatementsUnder(node.header, loops + 1)
           \o ConcatAll([i \in 1..Len(node.body) |->
                            StatementsUnder(node.body[i], loops + 1)])
           \o StatementsUnder(node.end, loops + 1)
      [] node.node = "Section" ->
           (IF node.header.tokens = <<>> THEN <<>> ELSE StatementsUnder(node.header, loops))
           \o ConcatAll([i \in 1..Len(node.body) |-> StatementsUnder(node.body[i], loops)])

\* the loop body of ColumnWidthCounter._count_widths_from_statement; widths is
\* the Python list, widths[index] is Widths[index + 1] here
ColumnWidthCounter_update(widths, index, length) ==
    IF index >= Len(widths) THEN Append(widths, length)
    ELSE IF length > widths[index + 1] THEN [widths EXCEPT ![index + 1] = length]
    ELSE widths

RECURSIVE ColumnWidthCounter_count_line(_, _, _)
ColumnWidthCounter_count_line(widths, line, index) ==
    IF line = <<>> THEN widths
    ELSE ColumnWidthCounter_count_line(
             ColumnWidthCounter_update(widths, index, Len(Head(line).value)),
             Tail(line), index + 1)

RECURSIVE ColumnWidthCounter_count_lines(_, _, _)
ColumnWidthCounter_count_lines(widths, lines, indent) ==
    IF lines = <<>> THEN widths
    ELSE ColumnWidthCounter_count_lines(
             ColumnWidthCounter_count_line(widths, SelectSeq(Head(lines), IsData), indent),
             Tail(lines), indent)

\* ColumnWidthCounter._count_widths_from_statement
ColumnWidthCounter_count_widths_from_statement(widths, statement, indent) ==
    ColumnWidthCounter_count_lines(widths, SplitLines(statement.tokens), indent)

\* ColumnWidthCounter.visit_Statement
ColumnWidthCounter_visit_Statement(widths, statement) ==
    IF statement.type = "TESTCASE_HEADER"
    THEN ColumnWidthCounter_count_widths_from_statement(widths, statement, 0)
    ELSE IF statement.type # "NAME"
    THEN ColumnWidthCounter_count_widths_from_statement(widths, statement, 1)
    ELSE widths

RECURSIVE ColumnWidthCounter_visit_all(_, _)
ColumnWidthCounter_visit_all(widths, visited) ==
    IF visited = <<>> THEN widths
    ELSE ColumnWidthCounter_visit_all(
             ColumnWidthCounter_visit_Statement(widths, Head(visited).statement),
             Tail(visited))

\* counter = ColumnWidthCounter(); counter.visit(section); counter.widths
ColumnWidthCounter_visit(section) ==
    ColumnWidthCounter_visit_all(<<>>, StatementsUnder(section, 0))

\* ColumnAligner.__init__: the fields the visit changes
ColumnAligner_init == [test_name_len |-> 0, first_statement_after_name_seen |-> FALSE]

\* how many data tokens tokens[1..i] holds
DataIndex(tokens, i) == Cardinality({j \in 1..i : IsData(tokens[j])})

\* ColumnAligner.align_header
ColumnAligner_align_header(statement, widths) ==
    LET tokens == statement.tokens
        count == DataCount(tokens)
    IN  [statement EXCEPT !.tokens =
            [i \in DOMAIN tokens |->
                IF IsData(tokens[i]) /\ DataIndex(tokens, i) < count
                   /\ DataIndex(tokens, i) <= Len(widths)
                THEN [tokens[i] EXCEPT !.value = ljust(@, widths[DataIndex(tokens, i)])]
                ELSE tokens[i]]]

\* ColumnAligner._should_be_indented
ColumnAligner_should_be_indented(line) ==
    line[1].type \in {"KEYWORD", "ASSIGN", "CONTINUATION"}

\* ColumnAligner.widths_for_line; line holds the data tokens of the line.  The
\* source indexes line[0] and widths[0] and raises IndexError when they are
\* missing, which is outside the files modelled here.
ColumnAligner_widths_for_line(line, widths, indent) ==
    IF indent > 0 /\ line # <<>> /\ Len(widths) > 1 /\ ColumnAligner_should_be_indented(line)
    THEN [Rest(widths) EXCEPT ![1] = @ + widths[1]]
    ELSE widths

\* ColumnAligner.should_write_content_after_name
ColumnAligner_should_write_content_after_name(st, line_pos) ==
    /\ line_pos = 0
    /\ ~st.first_statement_after_name_seen
    /\ st.test_name_len < short_test_name_length

\* the inner loop of ColumnAligner.align_statement over one line: i walks the
\* line, k the widths zipped with its data tokens
RECURSIVE ColumnAligner_align_line(_, _, _, _, _, _, _)
ColumnAligner_align_line(line, i, k, line_pos, exp_pos, widths, st) ==
    IF i > Len(line) \/ k > Len(widths) THEN [tokens |-> line, st |-> st]
    ELSE IF ~IsData(line[i])
    THEN ColumnAligner_align_line(line, i + 1, k, line_pos, exp_pos, widths, st)
    ELSE LET write == ColumnAligner_should_write_content_after_name(st, line_pos)
             exp == IF write THEN exp_pos + widths[k] - st.test_name_len
                    ELSE exp_pos + widths[k]
             value == Repeat(<<" ">>, exp - line_pos) \o line[i].value
         IN  ColumnAligner_align_line(
                 [line EXCEPT ![i].value = value], i + 1, k + 1,
                 line_pos + Len(value), exp, widths,
                 IF write THEN [st EXCEPT !.first_statement_after_name_seen = TRUE]
                 ELSE st)

RECURSIVE ColumnAligner_align_lines(_, _, _, _)
ColumnAligner_align_lines(lines, widths, indent, st) ==
    IF lines = <<>> THEN [tokens |-> <<>>, st |-> st]
    ELSE LET first == ColumnAligner_align_line(
                          Head(lines), 1, 1, 0, 0,
                          ColumnAligner_widths_for_line(SelectSeq(Head(lines), IsData),
                                                        widths, indent),
                          st)
             others == ColumnAligner_align_lines(Tail(lines), widths, indent, first.st)
         IN  [tokens |-> first.tokens \o others.tokens, st |-> others.st]

\* ColumnAligner.align_statement
ColumnAligner_align_statement(statement, widths, indent, st) ==
    LET aligned == ColumnAligner_align_lines(SplitLines(statement.tokens), widths, indent, st)
    IN  [node |-> [statement EXCEPT !.tokens = aligned.tokens], st |-> aligned.st]

\* ColumnAligner.visit_Statement
ColumnAligner_visit_Statement(statement, widths, indent, st) ==
    IF statement.type = "NAME"
    THEN [node |-> statement,
          st |-> [st EXCEPT !.test_name_len = Len(statement.tokens[1].value)]]
    ELSE IF statement.type = "TESTCASE_HEADER"
    THEN [node |-> ColumnAligner_align_header(statement, widths), st |-> st]
    ELSE ColumnAligner_align_statement(statement, widths, indent, st)

RECURSIVE ColumnAligner_visit(_, _, _, _)
RECURSIVE ColumnAligner_visit_list(_, _, _, _)
\* generic_visit of a list field, the aligner's fields carried from node to node
ColumnAligner_visit_list(items, widths, indent, st) ==
    IF items = <<>> THEN [node |-> <<>>, st |-> st]
    ELSE LET first == ColumnAligner_visit(Head(items), widths, indent, st)
             others == ColumnAligner_visit_list(Tail(items), widths, indent, first.st)
         IN  [node |-> <<first.node>> \o others.node, st |-> others.st]

ColumnAligner_visit(node, widths, indent, st) ==
    CASE node.node = "Statement" -> ColumnAligner_visit_Statement(node, widths, indent, st)
      [] node.node = "TestCase" ->
           \* ColumnAligner.visit_TestCase
           LET name == ColumnAligner_visit_Statement(
                           node.name_tokens, widths, indent,
                           [st EXCEPT !.first_statement_after_name_seen = FALSE])
               body == ColumnAligner_visit_list(node.body, widths, indent, name.st)
           IN  [node |-> [node EXCEPT !.name_tokens = name.node, !.body = body.node],
                st |-> body.st]
      [] node.node = "ForLoop" ->
           \* ColumnAligner.visit_ForLoop
           LET header == ColumnAligner_visit_Statement(node.header, widths, indent + 1, st)
               body == ColumnAligner_visit_list(node.body, widths, indent + 1, header.st)
               end == ColumnAligner_visit_Statement(node.end, widths, indent + 1, body.st)
           IN  [node |-> [node EXCEPT !.header = header.node, !.body = body.node,
                                      !.end = end.node],
                st |-> end.st]
      [] node.node = "Section" ->
           LET header == ColumnAligner_visit_Statement(node.header, widths, indent, st)
               body == ColumnAligner_visit_list(node.body, widths, indent, header.st)
           IN  [node |-> [node EXCEPT !.header = header.node, !.body = body.node],
                st |-> body.st]

\* the token Aligner.visit_Statement pads in a line: its first non-separator
FirstValue(line) ==
    CHOOSE i \in DOMAIN line :
        line[i].type # "SEPARATOR" /\ \A j \in 1..(i - 1) : line[j].type = "SEPARATOR"

\* Aligner.visit_Statement
Aligner_visit_Statement(statement) ==
    LET lines == SplitLines(statement.tokens)
        padded(line) ==
            IF Len(line) < 3 THEN line
            ELSE [line EXCEPT ![FirstValue(line)].value =
                     ljust(@, setting_and_variable_name_length)]
    IN  [statement EXCEPT !.tokens =
            ConcatAll([i \in 1..Len(lines) |-> padded(lines[i])])]

\* Aligner.visit_TestCaseSection
Aligner_visit_TestCaseSection(section) ==
    IF DataCount(section.header.tokens) > 1
    THEN ColumnAligner_visit(section, ColumnWidthCounter_visit(section), 0,
                             ColumnAligner_init).node
    ELSE section

\* Aligner.visit_KeywordSection
Aligner_visit_KeywordSection(section) == section

\* Aligner().visit: the two section visitors above, generic_visit with
\* Aligner.visit_Statement everywhere else
Aligner_visit(node) ==
    CASE node.node = "File" ->
           [node EXCEPT !.sections =
               [i \in 1..Len(node.sections) |->
                   LET section == node.sections[i]
                   IN  CASE section.type = "TESTCASE_HEADER" ->
                              Aligner_visit_TestCaseSection(section)
                         [] section.type = "KEYWORD_HEADER" ->
                              Aligner_visit_KeywordSection(section)
                         [] OTHER ->
                              [section EXCEPT
                                  !.header = IF @.tokens = <<>> THEN @
                                             ELSE Aligner_visit_Statement(@),
                                  !.body = [j \in 1..Len(@) |->
                                               Aligner_visit_Statement(@[j])]]]]

(***************************************************************************)
(* The files handed to the transformers: sections of a few kinds, written  *)
(* with spaces or with pipes as separators.                                *)
(***************************************************************************)
txt_settings == <<"*", "*", "*", " ", "s", "e", "t", "t", "i", "n", "g", "s", " ", "*", "*", "*">>
txt_test_cases == <<"*", "*", "*", " ", "T", "e", "s", "t", " ", "C", "a", "s", "e", "s", " ", "*", "*", "*">>
txt_keywords == <<"*", " ", "K", "e", "y", "w", "o", "r", "d", "s", " ", "*">>
txt_comments == <<"*", "*", "*", " ", "C", "o", "m", "m", "e", "n", "t", "s", " ", "*", "*", "*">>
txt_col == <<"C", "o", "l">>
txt_library == <<"L", "I", "B", "R", "A", "R", "Y">>
txt_doc == <<"[", " ", " ", "d", "o", "c", "u", "m", "e", "n", "t", "a", "t", "i", "o", "n", " ", "]">>
txt_A == <<"A">>
txt_B == <<"B">>
txt_K == <<"K", "w">>
txt_Log == <<"L", "o", "g">>
txt_hi == <<"h", "i">>
txt_x == <<"$", "{", "x", "}">>
txt_for == <<":", " ", "F", "O", "R">>
txt_IN == <<"I", "N">>
txt_end == <<"e", "n", "d">>
txt_hash == <<"#", " ", "n", "o", "t", "e">>

MaxSections == 3

Formats == {"space", "pipe"}

RECURSIVE Join(_, _)
Join(cells, separator) ==
    IF Len(cells) <= 1 THEN cells
    ELSE <<Head(cells), separator>> \o Join(Tail(cells), separator)

\* one line of data tokens at the given depth, as the format separates them
Row(fmt, depth, cells) ==
    IF fmt = "pipe"
    THEN <<Sep(IF depth = 0 THEN <<"|", " ", " ">>
               ELSE <<"|", " ", " ", "|", " ">>)>>
         \o Join(cells, Sep(<<" ", "|", " ">>)) \o <<Sep(<<" ", "|">>), Eol>>
    ELSE (IF depth = 0 THEN <<>> ELSE <<Sep(Spaces(3 * depth))>>)
         \o Join(cells, Sep(Spaces(2))) \o <<Eol>>

HeaderRow(type, cells) ==
    Statement(type, Join([i \in 1..Len(cells) |-> Tok(type, cells[i])], Sep(Spaces(2)))
                    \o <<Eol>>)

KeywordCall(fmt, depth, arg) ==
    Statement("KEYWORD", Row(fmt, depth, <<Tok("KEYWORD", txt_Log), Tok("ARGUMENT", arg)>>))

Loop(fmt) ==
    [node |-> "ForLoop",
     header |-> Statement("FOR", Row(fmt, 1, <<Tok("FOR", txt_for), Tok("VARIABLE", txt_x),
                                              Tok("FOR_SEPARATOR", txt_IN),
                                              Tok("ARGUMENT", txt_hi)>>)),
     body |-> <<KeywordCall(fmt, 2, txt_x)>>,
     end |-> Statement("END", Row(fmt, 1, <<Tok("END", txt_end)>>))]

TestCase(fmt, name, body) ==
    [node |-> "TestCase",
     name_tokens |-> Statement("NAME", Row(fmt, 0, <<Tok("NAME", name)>>)),
     body |-> body]

Keyword(fmt, name, body) ==
    [node |-> "Keyword",
     name_tokens |-> Statement("NAME", Row(fmt, 0, <<Tok("NAME", name)>>)),
     body |-> body]

Section(type, header, body) ==
    [node |-> "Section", type |-> type, header |-> header, body |-> body]

SectionKinds == {"lead", "comments", "settings", "tests", "columns", "keywords"}

MakeSection(fmt, kind) ==
    CASE kind = "lead" ->
           \* the lines before the first header: no header
           Section("COMMENT_HEADER", Statement("COMMENT_HEADER", <<>>),
                   <<Statement("COMMENT", <<Tok("COMMENT", txt_hash), Eol>>), EmptyLine>>)
      [] kind = "comments" ->
           Section("COMMENT_HEADER", HeaderRow("COMMENT_HEADER", <<txt_comments>>),
                   <<Statement("COMMENT", <<Tok("COMMENT", txt_hash), Eol>>)>>)
      [] kind = "settings" ->
           Section("SETTING_HEADER", HeaderRow("SETTING_HEADER", <<txt_settings>>),
                   <<Statement("LIBRARY", Row(fmt, 0, <<Tok("LIBRARY", txt_library),
                                                       Tok("ARGUMENT", txt_hi)>>))>>)
      [] kind = "tests" ->
           Section("TESTCASE_HEADER", HeaderRow("TESTCASE_HEADER", <<txt_test_cases>>),
                   <<TestCase(fmt, txt_A, <<KeywordCall(fmt, 1, txt_hi), Loop(fmt)>>),
                     TestCase(fmt, txt_B, <<>>)>>)
      [] kind = "columns" ->
           Section("TESTCASE_HEADER",
                   HeaderRow("TESTCASE_HEADER", <<txt_test_cases, txt_col>>),
                   <<TestCase(fmt, txt_B, <<>>),
                     TestCase(fmt, txt_A, <<KeywordCall(fmt, 1, txt_hi), Loop(fmt)>>)>>)
      [] kind = "keywords" ->
           Section("KEYWORD_HEADER", HeaderRow("KEYWORD_HEADER", <<txt_keywords>>),
                   <<Keyword(fmt, txt_K,
                       <<Statement("DOCUMENTATION",
                                   Row(fmt, 1, <<Tok("DOCUMENTATION", txt_doc)>>)),
                         KeywordCall(fmt, 1, txt_x)>>)>>)

\* the section kinds of a file, in order; the headerless section can only lead
Layouts ==
    {l \in UNION {[1..n -> SectionKinds] : n \in 1..MaxSections} :
        \A i \in 2..Len(l) : l[i] # "lead"}

MakeFile(fmt, layout) ==
    [node |-> "File",
     sections |-> [i \in 1..Len(layout) |-> MakeSection(fmt, layout[i])]]

Inputs == {MakeFile(fmt, layout) : fmt \in Formats, layout \in Layouts}

(***************************************************************************)
(* The transformers as a state machine: each pass is one visit of the      *)
(* whole file.                                                             *)
(***************************************************************************)
TidyInit ==
    /\ input \in Inputs
    /\ file = input
    /\ passes = <<>>
    /\ pipes \in BOOLEAN
    /\ spacecount \in (IF pipes THEN {4} ELSE {2, 4})
    /\ tidied = <<>>
    /\ cls = "InitFileSettings"
    /\ settings = NewSettings(cls)
    /\ parent = NewSettings(cls)
    /\ last = [on |-> "none", before |-> <<>>, had |-> PyNone, tokens |-> <<>>]

\* the text the file serialises to: every token's value in document order
Text(model) ==
    ConcatAll([i \in 1..Len(model.sections) |->
        LET visited == StatementsUnder(model.sections[i], 0)
        IN  ConcatAll([j \in 1..Len(visited) |->
                LET tokens == visited[j].statement.tokens
                IN  ConcatAll([k \in 1..Len(tokens) |-> tokens[k].value])])])

\* the passes of one application, in their fixed order; the separator pass is
\* the one the configured style selects
Pipeline ==
    <<"Cleaner", IF pipes THEN "PipeAdder" ELSE "SeparatorCleaner", "Aligner",
      "NewlineAdder">>

Applications == 2

\* a pass runs on its own on the parsed file, or as the next pass of an
\* application that started with Cleaner
CanRun(pass) ==
    IF passes = <<>> THEN pass # "Aligner"
    ELSE /\ passes[1] = "Cleaner"
         /\ Len(passes) < Applications * Len(Pipeline)
         /\ pass = Pipeline[(Len(passes) % Len(Pipeline)) + 1]

Ran_pass(pass, model) ==
    /\ CanRun(pass)
    /\ file' = model
    /\ passes' = Append(passes, pass)
    /\ tidied' = IF Len(passes') = Len(Pipeline) THEN Text(model) ELSE tidied
    /\ UNCHANGED <<input, pipes, spacecount>>

\* Cleaner().visit(model)
RunCleaner == Ran_pass("Cleaner", Cleaner_visit_File(file))

\* PipeAdder().visit(model)
RunPipeAdder == Ran_pass("PipeAdder", PipeAdder_visit(file, 0))

\* SeparatorCleaner(spacecount).visit(model)
RunSeparatorCleaner ==
    Ran_pass("SeparatorCleaner", SeparatorCleaner_visit(file, 0, Spaces(spacecount)))

\* Aligner().visit(model)
RunAligner == Ran_pass("Aligner", Aligner_visit(file))

\* NewlineAdder().visit(model)
RunNewlineAdder == Ran_pass("NewlineAdder", NewlineAdder_visit_File(file))

TidyNext ==
    (RunCleaner \/ RunPipeAdder \/ RunSeparatorCleaner \/ RunAligner \/ RunNewlineAdder)
    /\ UNCHANGED lexvars

TidySpec == TidyInit /\ [][TidyNext]_vars

(***************************************************************************)
(* What the claims about the transformers refer to: the lines of a tree in *)
(* document order, each with its depth (0 at section level and on test and *)
(* keyword name lines, one more inside a test, keyword or loop body).      *)
(***************************************************************************)
RECURSIVE LinesOf(_, _)
LinesOf(node, depth) ==
    CASE node.node = "Statement" ->
           LET lines == SplitLines(node.tokens)
           IN  [i \in 1..Len(lines) |->
                   [tokens |-> lines[i], depth |-> depth, of |-> node.type]]
      [] node.node \in {"TestCase", "Keyword"} ->
           LinesOf(node.name_tokens, depth)
           \o ConcatAll([i \in 1..Len(node.body) |-> LinesOf(node.body[i], depth + 1)])
      [] node.node = "ForLoop" ->
           LinesOf(node.header, depth)
           \o ConcatAll([i \in 1..Len(node.body) |-> LinesOf(node.body[i], depth + 1)])
           \o LinesOf(node.end, depth)
      [] node.node = "Section" ->
           LinesOf(node.header, depth)
           \o ConcatAll([i \in 1..Len(node.body) |-> LinesOf(node.body[i], depth)])
      [] node.node = "File" ->
           ConcatAll([i \in 1..Len(node.sections) |-> LinesOf(node.sections[i], depth)])

IsSep(token) == token.type = "SEPARATOR"

LoneTerminator(tokens) == Len(tokens) = 1 /\ tokens[1].type = "EOL"

NonSeparators(tokens) == SelectSeq(tokens, LAMBDA tk : ~IsSep(tk))

Ran(pass) == passes = <<pass>>

(***************************************************************************)
(* C8: after SeparatorCleaner with width w every separator of the tree has *)
(* been rewritten: one that starts its line is w x depth spaces, every     *)
(* other one is w spaces; this covers every statement, test and keyword    *)
(* name lines and loop header and end lines included.                      *)
(***************************************************************************)
C8_EverySeparatorRewritten ==
    Ran("SeparatorCleaner") =>
        LET lines == LinesOf(file, 0)
        IN  \A k \in DOMAIN lines :
                \A i \in DOMAIN lines[k].tokens :
                    IsSep(lines[k].tokens[i]) =>
                        lines[k].tokens[i].value =
                            Spaces(IF i = 1 THEN spacecount * lines[k].depth
                                   ELSE spacecount)

\* a test case name line of a pipe-separated file, its separators as they were
C8_Witness ==
    /\ Ran("SeparatorCleaner")
    /\ \E k \in DOMAIN LinesOf(file, 0) :
          LET line == LinesOf(file, 0)[k]
          IN  /\ line.of = "NAME"
              /\ IsSep(line.tokens[1])
              /\ line.tokens = LinesOf(input, 0)[k].tokens
              /\ line.tokens[1].value # <<>>

PipeIndent(level) == Repeat(<<"|", " ", " ", " ", " ">>, level) \o <<"|", " ">>

C9_Line(before, after, level) ==
    IF LoneTerminator(before) THEN after = before
    ELSE LET hadLead == IsSep(before[1])
             hadTrail == Len(before) >= 2 /\ IsSep(before[Len(before) - 1])
             n == Len(after)
         IN  /\ n = Len(before) + (IF hadLead THEN 0 ELSE 1)
                                + (IF hadTrail \/ Len(before) = 1 THEN 0 ELSE 1)
             /\ IsSep(after[1])
             /\ after[1].value = IF level >= 1 THEN PipeIndent(level)
                                 ELSE IF hadLead THEN before[1].value
                                 ELSE <<"|", " ">>
             /\ NonSeparators(after) = NonSeparators(before)
             /\ IsSep(after[n - 1])
             /\ \A i \in 2..n :
                   IsSep(after[i]) =>
                       after[i].value = IF i = n - 1 /\ ~hadTrail
                                        THEN <<" ", "|">>
                                        ELSE <<" ", "|", " ">>

IsBlank(item) == item.node = "Statement" /\ item.type = "EOL"

RECURSIVE TrailingBlanks(_)
TrailingBlanks(items) ==
    IF items # <<>> /\ IsBlank(items[Len(items)])
    THEN 1 + TrailingBlanks(SubSeq(items, 1, Len(items) - 1))
    ELSE 0

IsItem(node) == node.node \in {"TestCase", "Keyword"}

NoBlanksIn(items) ==
    \A i \in DOMAIN items :
        /\ ~IsBlank(items[i])
        /\ IsItem(items[i]) => \A j \in DOMAIN items[i].body : ~IsBlank(items[i].body[j])

LeadingCommentOnly(f, s) ==
    s = 1 /\ f.sections[s].type = "COMMENT_HEADER" /\ f.sections[s].header.tokens = <<>>

NoBlankLinesInData(f) ==
    \A s \in DOMAIN f.sections :
        ~LeadingCommentOnly(f, s) => NoBlanksIn(f.sections[s].body)

\* the blank lines at the end of a section: those closing its body and, under
\* them, those closing the body of its last test case or keyword
EndBlanks(section) ==
    LET own == TrailingBlanks(section.body)
        rest == SubSeq(section.body, 1, Len(section.body) - own)
    IN  own + (IF rest # <<>> /\ IsItem(rest[Len(rest)])
               THEN TrailingBlanks(rest[Len(rest)].body)
               ELSE 0)

\* the position of the file's final test case (h = "TESTCASE_HEADER") or final
\* keyword (h = "KEYWORD_HEADER"): the last item of the last section of the kind
IsFinalItem(f, s, j) ==
    /\ j = Len(f.sections[s].body)
    /\ \A s2 \in DOMAIN f.sections :
          (s2 > s /\ f.sections[s2].type = f.sections[s].type) =>
              ~\E j2 \in DOMAIN f.sections[s2].body : IsItem(f.sections[s2].body[j2])

(***************************************************************************)
(* C10, as stated: after NewlineAdder, on such a file, exactly one blank   *)
(* line follows the body of every test case and keyword except the file's  *)
(* final test case and final keyword, which get none from the per-item     *)
(* rule, also when their body is empty; exactly one blank line separates   *)
(* consecutive sections, except that none is added at a comment-only       *)
(* section that leads the file; the last section gets no trailing blank    *)
(* line.                                                                   *)
(***************************************************************************)
C10_AsStated ==
    (Ran("NewlineAdder") /\ NoBlankLinesInData(input)) =>
        \A s \in DOMAIN file.sections :
            LET before == input.sections[s]
                after == file.sections[s]
                n == Len(file.sections)
            IN  /\ \A j \in DOMAIN before.body :
                      IsItem(before.body[j]) =>
                          IF IsFinalItem(input, s, j)
                          THEN TrailingBlanks(after.body[j].body) = 0
                          ELSE IF j = Len(before.body)
                          THEN EndBlanks(after) = 1
                          ELSE TrailingBlanks(after.body[j].body) = 1
                /\ s < n =>
                      IF LeadingCommentOnly(input, s)
                      THEN EndBlanks(after) = EndBlanks(before)
                      ELSE EndBlanks(after) = 1
                /\ s = n => TrailingBlanks(after.body) = 0

(***************************************************************************)
(* C10, amended: after NewlineAdder, on such a file, one blank line is     *)
(* appended to the body of every test case and keyword that is not the     *)
(* last item of its section or whose body is empty, and to no other (the   *)
(* last item of a section gets none only when its body is not empty); one  *)
(* blank line is appended to the body of every section that is neither the *)
(* file's last section nor a comment section, leading or not, and to no    *)
(* other; nothing else changes.                                            *)
(***************************************************************************)
WithBlank(items, yes) == IF yes THEN items \o <<EmptyLine>> ELSE items

C10_BlankLinesAdded ==
    (Ran("NewlineAdder") /\ NoBlankLinesInData(input)) =>
        /\ Len(file.sections) = Len(input.sections)
        /\ \A s \in DOMAIN input.sections :
              LET before == input.sections[s]
                  after == file.sections[s]
                  count == Len(before.body)
              IN  /\ after.header = before.header
                  /\ after.type = before.type
                  /\ IF s # Len(input.sections) /\ before.type # "COMMENT_HEADER"
                     THEN Len(after.body) = count + 1 /\ IsBlank(after.body[count + 1])
                     ELSE Len(after.body) = count
                  /\ \A j \in 1..count :
                        IF IsItem(before.body[j])
                        THEN /\ after.body[j].name_tokens = before.body[j].name_tokens
                             /\ after.body[j].body =
                                   WithBlank(before.body[j].body,
                                             before.body[j].body = <<>> \/ j # count)
                        ELSE after.body[j] = before.body[j]

\* the file's final test case has an empty body and got a blank line, in a
\* section followed by another one
C10_Witness ==
    /\ Ran("NewlineAdder")
    /\ NoBlankLinesInData(input)
    /\ Len(input.sections) = 2
    /\ input.sections[1].type = "TESTCASE_HEADER"
    /\ LET tests == file.sections[1].body
       IN  /\ input.sections[1].body[2].body = <<>>
           /\ IsFinalItem(input, 1, 2)
           /\ TrailingBlanks(tests[2].body) = 1
           /\ TrailingBlanks(tests) = 1


(***************************************************************************)
(* C5: applying all passes a second time                                   *)
(***************************************************************************)
AppliedTwice == passes = Pipeline \o Pipeline

\* C5: when the four passes (Cleaner, the separator pass of the style,
\* Aligner, NewlineAdder) have been applied a second time to the tree the
\* first application produced, the text the tree serialises to is exactly the
\* text it serialised to after the first application.
C5_SecondApplicationChangesNothing == AppliedTwice => Text(file) = tidied

\* both applications done with the space-separated style, and the second one
\* changed the text
C5_Witness == AppliedTwice /\ ~pipes /\ tidied # <<>> /\ Text(file) # tidied

=============================================================================
